---- MODULE Spec2Model ----
(***************************************************************************)
(* Model of src/src/index.ts: the Library class (catalog `books`, lending  *)
(* ledger `rentedBooks`), its five operations and the objects they handle. *)
(* Book objects live in a heap and are handled by reference, as in the     *)
(* source; getBooks() is modelled through JSON.stringify / JSON.parse.     *)
(***************************************************************************)
EXTENDS Integers, Sequences, FiniteSets, TLC

\* ---------------------------------------------------------------- bounds
MaxBooks == 2            \* catalog length explored, whole Library
MaxCatalog == 3          \* catalog length explored, catalog operations alone

\* ------------------------------------------------------------- enum Role
LIBRARIAN == 0
MEMBER == 1

\* ------------------------------------------------- actors (User objects)
\* Two Member objects share the name "A", and so does the Librarian.
librarian == [id |-> "librarian", name |-> "A", age |-> 30, class |-> "Librarian"]
member1 == [id |-> "member1", name |-> "A", age |-> 30, class |-> "Member"]
member2 == [id |-> "member2", name |-> "A", age |-> 28, class |-> "Member"]
member3 == [id |-> "member3", name |-> "B", age |-> 28, class |-> "Member"]

Users == {librarian, member1, member2, member3}
Names == {u.name : u \in Users}

getRole(user) == IF user.class = "Librarian" THEN LIBRARIAN ELSE MEMBER

\* --------------------------------------------------- Book objects (heap)
\* References to Book objects; b1 and b2 are distinct objects with equal
\* fields, b3 differs in every field.
Books == {"b1", "b2", "b3"}
NoRef == "null"

Date(t) == [type |-> "Date", value |-> t]
Book(title, author, publishedDate) ==
  [title |-> title, author |-> author, publishedDate |-> publishedDate]

InitHeap ==
  [r \in Books |->
     IF r = "b3" THEN Book("Cooking", "Baek", Date(90061001))
                 ELSE Book("TypeScript", "Kang", Date(0))]

\* ------------------------------------------------------ JSON round trip
\* Date.prototype.toISOString for times within January 1970, as the tuple
\* <<year, month, day, hour, minute, second, millisecond>> of the text.
toISOString(t) ==
  << 1970, 1, 1 + (t \div 86400000), (t \div 3600000) % 24,
     (t \div 60000) % 60, (t \div 1000) % 60, t % 1000 >>

\* JSON.stringify calls Date.prototype.toJSON: a string, or null for an
\* invalid date.
toJSON(d) ==
  IF d.type = "Date"
    THEN IF d.value = -1 THEN [type |-> "null", value |-> -1]
                         ELSE [type |-> "string", value |-> toISOString(d.value)]
    ELSE d

\* The serialised text of an array of Book references, as its JSON tree.
JSON_stringify(bs, h) ==
  [i \in 1..Len(bs) |->
     Book(h[bs[i]].title, h[bs[i]].author, toJSON(h[bs[i]].publishedDate))]

\* JSON.parse builds a new array of new plain objects: no element refers to
\* a heap object (ref = NoRef) and the array is not the catalog array.
JSON_parse(text) ==
  [array |-> "fresh",
   elems |-> [i \in 1..Len(text) |-> [ref |-> NoRef, obj |-> text[i]]]]

\* The value returned by a call that returns nothing.
Undefined == [array |-> "undefined", elems |-> << >>]

\* ------------------------------------------------------ Library methods
\* What a call leaves for its caller to observe: the method that ran and
\* the console line it wrote (kind "Silent": none), with the name and the
\* title the line interpolates.
Log(op, kind, name, title) == [op |-> op, kind |-> kind, name |-> name, title |-> title]
Silent(op) == Log(op, "Silent", "", "")

\* Variant: a shallow copy (this.books.slice()), a new array whose elements
\* are the catalog's own Book objects.
getBooks_shallow(bs, h) ==
  [array |-> "fresh",
   elems |-> [i \in 1..Len(bs) |-> [ref |-> bs[i], obj |-> h[bs[i]]]]]

getBooks(bs, h) == JSON_parse(JSON_stringify(bs, h))

\* Variant: the role check left out.
addBook_noRoleCheck(bs, user, book) ==
  [books |-> Append(bs, book), out |-> Silent("addBook")]

\* Variant: unshift for push, the book goes to the front.
addBook_unshift(bs, user, book) ==
  IF getRole(user) # LIBRARIAN
    THEN [books |-> bs, out |-> Log("addBook", "NotAuthorized", "", "")]
    ELSE [books |-> <<book>> \o bs, out |-> Silent("addBook")]

addBook(bs, user, book) ==
  IF getRole(user) # LIBRARIAN
    THEN [books |-> bs, out |-> Log("addBook", "NotAuthorized", "", "")]
    ELSE [books |-> Append(bs, book), out |-> Silent("addBook")]

\* Array.prototype.indexOf: first index holding the identical reference,
\* 0 standing for -1.
indexOf(bs, book) ==
  IF \E i \in 1..Len(bs) : bs[i] = book
    THEN CHOOSE i \in 1..Len(bs) :
           bs[i] = book /\ \A j \in 1..(i - 1) : bs[j] # book
    ELSE 0

\* Array.prototype.splice(index, 1)
splice(bs, index) == SubSeq(bs, 1, index - 1) \o SubSeq(bs, index + 1, Len(bs))

\* Variant: the test on the index inverted (index === -1), so that a found
\* book stays and splice(-1, 1) drops the last entry for a missing one.
removeBook_invertedTest(bs, user, book) ==
  IF getRole(user) # LIBRARIAN
    THEN [books |-> bs, out |-> Log("removeBook", "NotAuthorized", "", "")]
    ELSE IF indexOf(bs, book) = 0
           THEN [books |-> SubSeq(bs, 1, Len(bs) - 1), out |-> Silent("removeBook")]
           ELSE [books |-> bs, out |-> Silent("removeBook")]

\* Variant: lastIndexOf for indexOf, the last identical entry goes.
removeBook_lastIndexOf(bs, user, book) ==
  IF getRole(user) # LIBRARIAN
    THEN [books |-> bs, out |-> Log("removeBook", "NotAuthorized", "", "")]
    ELSE IF \E i \in 1..Len(bs) : bs[i] = book
           THEN [books |-> splice(bs, CHOOSE i \in 1..Len(bs) :
                                        bs[i] = book
                                        /\ \A j \in (i + 1)..Len(bs) : bs[j] # book),
                 out |-> Silent("removeBook")]
           ELSE [books |-> bs, out |-> Silent("removeBook")]

removeBook(bs, user, book) ==
  IF getRole(user) # LIBRARIAN
    THEN [books |-> bs, out |-> Log("removeBook", "NotAuthorized", "", "")]
    ELSE IF indexOf(bs, book) # 0
           THEN [books |-> splice(bs, indexOf(bs, book)), out |-> Silent("removeBook")]
           ELSE [books |-> bs, out |-> Silent("removeBook")]

\* Map.prototype.has / get / set / delete on the ledger
has(rb, name) == name \in DOMAIN rb
get(rb, name) == IF name \in DOMAIN rb THEN rb[name] ELSE NoRef
set(rb, name, book) ==
  [n \in DOMAIN rb \cup {name} |-> IF n = name THEN book ELSE rb[n]]
delete(rb, name) == [n \in DOMAIN rb \ {name} |-> rb[n]]

\* Variant: the ledger is consulted before the role.
rentBook_ledgerFirst(rb, h, user, book) ==
  IF has(rb, user.name)
    THEN [rentedBooks |-> rb,
          out |-> Log("rentBook", "AlreadyBorrowing", user.name, "")]
    ELSE IF getRole(user) # MEMBER
           THEN [rentedBooks |-> rb, out |-> Log("rentBook", "NotAuthorized", "", "")]
           ELSE [rentedBooks |-> set(rb, user.name, book),
                 out |-> Log("rentBook", "Rented", user.name, h[book].title)]

\* Variant: the ledger keyed by the kind of user, not by the name.
rentBook_keyedByClass(rb, h, user, book) ==
  IF getRole(user) # MEMBER
    THEN [rentedBooks |-> rb, out |-> Log("rentBook", "NotAuthorized", "", "")]
    ELSE IF has(rb, user.class)
           THEN [rentedBooks |-> rb,
                 out |-> Log("rentBook", "AlreadyBorrowing", user.name, "")]
           ELSE [rentedBooks |-> set(rb, user.class, book),
                 out |-> Log("rentBook", "Rented", user.name, h[book].title)]

\* Variant: the ledger keyed by the User object, not by its name.
rentBook_keyedByObject(rb, h, user, book) ==
  IF getRole(user) # MEMBER
    THEN [rentedBooks |-> rb, out |-> Log("rentBook", "NotAuthorized", "", "")]
    ELSE IF has(rb, user.id)
           THEN [rentedBooks |-> rb,
                 out |-> Log("rentBook", "AlreadyBorrowing", user.name, "")]
           ELSE [rentedBooks |-> set(rb, user.id, book),
                 out |-> Log("rentBook", "Rented", user.name, h[book].title)]

\* Variant: the has() test left out, a second rent replaces the entry.
rentBook_overwrite(rb, h, user, book) ==
  IF getRole(user) # MEMBER
    THEN [rentedBooks |-> rb, out |-> Log("rentBook", "NotAuthorized", "", "")]
    ELSE [rentedBooks |-> set(rb, user.name, book),
          out |-> Log("rentBook", "Rented", user.name, h[book].title)]

\* Variant: only a second rent of the very same book is refused.
rentBook_sameBookOnly(rb, h, user, book) ==
  IF getRole(user) # MEMBER
    THEN [rentedBooks |-> rb, out |-> Log("rentBook", "NotAuthorized", "", "")]
    ELSE IF get(rb, user.name) = book
           THEN [rentedBooks |-> rb,
                 out |-> Log("rentBook", "AlreadyBorrowing", user.name, "")]
           ELSE [rentedBooks |-> set(rb, user.name, book),
                 out |-> Log("rentBook", "Rented", user.name, h[book].title)]

rentBook(rb, h, user, book) ==
  IF getRole(user) # MEMBER
    THEN [rentedBooks |-> rb, out |-> Log("rentBook", "NotAuthorized", "", "")]
    ELSE IF has(rb, user.name)
           THEN [rentedBooks |-> rb,
                 out |-> Log("rentBook", "AlreadyBorrowing", user.name, "")]
           ELSE [rentedBooks |-> set(rb, user.name, book),
                 out |-> Log("rentBook", "Rented", user.name, h[book].title)]

\* Variant: the role check left out.
returnBook_noRoleCheck(rb, h, user, book) ==
  IF get(rb, user.name) = book
    THEN [rentedBooks |-> delete(rb, user.name),
          out |-> Log("returnBook", "Returned", user.name, h[book].title)]
    ELSE [rentedBooks |-> rb,
          out |-> Log("returnBook", "NotBorrowed", user.name, h[book].title)]

\* Variant: the held book is matched by title, not by identity.
returnBook_byTitle(rb, h, user, book) ==
  IF getRole(user) # MEMBER
    THEN [rentedBooks |-> rb, out |-> Log("returnBook", "NotAuthorized", "", "")]
    ELSE IF has(rb, user.name) /\ h[rb[user.name]].title = h[book].title
           THEN [rentedBooks |-> delete(rb, user.name),
                 out |-> Log("returnBook", "Returned", user.name, h[book].title)]
           ELSE [rentedBooks |-> rb,
                 out |-> Log("returnBook", "NotBorrowed", user.name, h[book].title)]

\* Variant: the entry is deleted before the match is tested.
returnBook_deleteFirst(rb, h, user, book) ==
  IF getRole(user) # MEMBER
    THEN [rentedBooks |-> rb, out |-> Log("returnBook", "NotAuthorized", "", "")]
    ELSE IF get(rb, user.name) = book
           THEN [rentedBooks |-> delete(rb, user.name),
                 out |-> Log("returnBook", "Returned", user.name, h[book].title)]
           ELSE [rentedBooks |-> delete(rb, user.name),
                 out |-> Log("returnBook", "NotBorrowed", user.name, h[book].title)]

returnBook(rb, h, user, book) ==
  IF getRole(user) # MEMBER
    THEN [rentedBooks |-> rb, out |-> Log("returnBook", "NotAuthorized", "", "")]
    ELSE IF get(rb, user.name) = book
           THEN [rentedBooks |-> delete(rb, user.name),
                 out |-> Log("returnBook", "Returned", user.name, h[book].title)]
           ELSE [rentedBooks |-> rb,
                 out |-> Log("returnBook", "NotBorrowed", user.name, h[book].title)]

\* ----------------------------------------------------------------- state
VARIABLES
  books,        \* Library.books: sequence of Book references
  rentedBooks,  \* Library.rentedBooks: name -> Book reference
  heap,         \* the fields of every Book object
  out,          \* the method called last and the console line it wrote
  ret,          \* the value that call returned, as the caller now holds it
  seen,         \* what the latest getBooks() returned, while the catalog
                \* has not changed since (history)
  loan,         \* per observed User object: the book of its latest
                \* successful rentBook not followed by a successful
                \* returnBook of that same object (history)
  borrowed,     \* per name: the book of the latest successful rentBook
                \* under that name not followed by a successful returnBook
                \* under that name (history)
  outstanding,  \* per name: successful rentBook calls minus successful
                \* returnBook calls (history)
  main          \* main(): the objects it created and the statement it is
                \* at (pc 0: the Library is called by others, main is not
                \* running)

vars == <<books, rentedBooks, heap, out, ret, seen, loan, borrowed, outstanding,
          main>>

\* The state after `new Library()`. `observed` are the User objects whose
\* own rent/return history `loan` records.
InitObserving(observed) ==
  /\ books = << >>
  /\ rentedBooks = [n \in {} |-> NoRef]
  /\ heap = InitHeap
  /\ out = Silent("new")
  /\ ret = Undefined
  /\ seen = Undefined
  /\ loan = [u \in observed |-> NoRef]
  /\ borrowed = [n \in Names |-> NoRef]
  /\ outstanding = [n \in Names |-> 0]

\* The objects main() creates (lines 124-130): a librarian, two members of
\* different names and three distinct books.
MainObjects ==
  {o \in [librarian : {u \in Users : getRole(u) = LIBRARIAN},
          member1 : {u \in Users : getRole(u) = MEMBER},
          member2 : {u \in Users : getRole(u) = MEMBER},
          book : Books, book2 : Books, book3 : Books] :
     /\ o.member1.name # o.member2.name
     /\ Cardinality({o.book, o.book2, o.book3}) = 3}

At(pc, objects) == [pc |-> pc, objects |-> objects]
NotRunning == At(0, CHOOSE o \in MainObjects : TRUE)

Init == InitObserving({}) /\ main = NotRunning

InitLoan == InitObserving(Users) /\ main = NotRunning

\* main() starts on a new Library (line 123), whatever objects it creates.
InitMain == InitObserving({}) /\ \E o \in MainObjects : main = At(1, o)

\* --------------------------------------------------------------- actions
\* addBook, explored while the catalog holds at most `max` entries.
AddBookUpTo(max, user, book) ==
  LET r == addBook(books, user, book) IN
  /\ Len(r.books) <= max
  /\ books' = r.books
  /\ out' = r.out
  /\ ret' = Undefined
  /\ seen' = IF r.books = books THEN seen ELSE Undefined
  /\ UNCHANGED <<rentedBooks, heap, loan, borrowed, outstanding>>

AddBook(user, book) == AddBookUpTo(MaxBooks, user, book)

\* Variant: removing a book also drops the ledger entries that hold it.
RemoveBook_evicts(user, book) ==
  LET r == removeBook(books, user, book) IN
  /\ books' = r.books
  /\ out' = r.out
  /\ ret' = Undefined
  /\ seen' = IF r.books = books THEN seen ELSE Undefined
  /\ rentedBooks' = IF r.books = books
                      THEN rentedBooks
                      ELSE [n \in {k \in DOMAIN rentedBooks : rentedBooks[k] # book}
                              |-> rentedBooks[n]]
  /\ UNCHANGED <<heap, loan, borrowed, outstanding>>

RemoveBook(user, book) ==
  LET r == removeBook(books, user, book) IN
  /\ books' = r.books
  /\ out' = r.out
  /\ ret' = Undefined
  /\ seen' = IF r.books = books THEN seen ELSE Undefined
  /\ UNCHANGED <<rentedBooks, heap, loan, borrowed, outstanding>>

\* Variant: a successful rent also takes the book off the shelf.
RentBook_takesBook(user, book) ==
  LET r == rentBook(rentedBooks, heap, user, book) IN
  /\ rentedBooks' = r.rentedBooks
  /\ out' = r.out
  /\ ret' = Undefined
  /\ loan' = IF r.out.kind = "Rented" /\ user \in DOMAIN loan
               THEN [loan EXCEPT ![user] = book] ELSE loan
  /\ borrowed' = IF r.out.kind = "Rented"
                   THEN [borrowed EXCEPT ![user.name] = book] ELSE borrowed
  /\ outstanding' = IF r.out.kind = "Rented"
                      THEN [outstanding EXCEPT ![user.name] = @ + 1]
                      ELSE outstanding
  /\ books' = IF r.out.kind = "Rented" /\ indexOf(books, book) # 0
                THEN splice(books, indexOf(books, book)) ELSE books
  /\ seen' = IF books' = books THEN seen ELSE Undefined
  /\ UNCHANGED heap

RentBook(user, book) ==
  LET r == rentBook(rentedBooks, heap, user, book) IN
  /\ rentedBooks' = r.rentedBooks
  /\ out' = r.out
  /\ ret' = Undefined
  /\ loan' = IF r.out.kind = "Rented" /\ user \in DOMAIN loan
               THEN [loan EXCEPT ![user] = book] ELSE loan
  /\ borrowed' = IF r.out.kind = "Rented"
                   THEN [borrowed EXCEPT ![user.name] = book] ELSE borrowed
  /\ outstanding' = IF r.out.kind = "Rented"
                      THEN [outstanding EXCEPT ![user.name] = @ + 1]
                      ELSE outstanding
  /\ UNCHANGED <<books, heap, seen>>

ReturnBook(user, book) ==
  LET r == returnBook(rentedBooks, heap, user, book) IN
  /\ rentedBooks' = r.rentedBooks
  /\ out' = r.out
  /\ ret' = Undefined
  /\ loan' = IF r.out.kind = "Returned" /\ user \in DOMAIN loan
               THEN [loan EXCEPT ![user] = NoRef] ELSE loan
  /\ borrowed' = IF r.out.kind = "Returned"
                   THEN [borrowed EXCEPT ![user.name] = NoRef] ELSE borrowed
  /\ outstanding' = IF r.out.kind = "Returned"
                      THEN [outstanding EXCEPT ![user.name] = @ - 1]
                      ELSE outstanding
  /\ UNCHANGED <<books, heap, seen>>

GetBooks ==
  /\ ret' = getBooks(books, heap)
  /\ seen' = ret'
  /\ out' = Silent("getBooks")
  /\ UNCHANGED <<books, rentedBooks, heap, loan, borrowed, outstanding>>

\* The caller assigns to the title of element i of the array it was given:
\* the write lands in the object that element refers to.
WriteElement(i) ==
  /\ ret.array # "undefined"
  /\ i \in 1..Len(ret.elems)
  /\ ret' = [ret EXCEPT !.elems[i].obj.title = "changed"]
  /\ heap' = IF ret.elems[i].ref # NoRef
               THEN [heap EXCEPT ![ret.elems[i].ref].title = "changed"]
               ELSE heap
  /\ out' = Silent("write")
  /\ UNCHANGED <<books, rentedBooks, seen, loan, borrowed, outstanding>>

\* The caller pops the last element off the array it was given: the array
\* shrinks, and so does the catalog if the array is the catalog's own.
PopArray ==
  /\ ret.array # "undefined"
  /\ Len(ret.elems) > 0
  /\ ret' = [ret EXCEPT !.elems = SubSeq(@, 1, Len(@) - 1)]
  /\ books' = IF ret.array = "books" THEN SubSeq(books, 1, Len(books) - 1) ELSE books
  /\ out' = Silent("pop")
  /\ UNCHANGED <<rentedBooks, heap, seen, loan, borrowed, outstanding>>

Next ==
  \/ \E user \in Users, book \in Books : AddBook(user, book) /\ UNCHANGED main
  \/ \E user \in Users, book \in Books : RemoveBook(user, book) /\ UNCHANGED main
  \/ \E user \in Users, book \in Books : RentBook(user, book) /\ UNCHANGED main
  \/ \E user \in Users, book \in Books : ReturnBook(user, book) /\ UNCHANGED main
  \/ GetBooks /\ UNCHANGED main
  \/ \E i \in 1..MaxBooks : WriteElement(i) /\ UNCHANGED main
  \/ PopArray /\ UNCHANGED main

Spec == Init /\ [][Next]_vars

\* The lending half of the Library on its own, every User object observed:
\* rentBook and returnBook read and write the ledger alone (lines 90-118).
NextLoan ==
  \/ \E user \in Users, book \in Books : RentBook(user, book) /\ UNCHANGED main
  \/ \E user \in Users, book \in Books : ReturnBook(user, book) /\ UNCHANGED main

SpecLoan == InitLoan /\ [][NextLoan]_vars

\* The catalog half of the Library on its own, with longer catalogs:
\* addBook, removeBook and getBooks read and write `books` alone
\* (lines 60-87).
AddToCatalog(user, book) == AddBookUpTo(MaxCatalog, user, book)

NextCatalog ==
  \/ \E user \in Users, book \in Books : AddToCatalog(user, book) /\ UNCHANGED main
  \/ \E user \in Users, book \in Books : RemoveBook(user, book) /\ UNCHANGED main
  \/ GetBooks /\ UNCHANGED main

SpecCatalog == Init /\ [][NextCatalog]_vars

\* main() (lines 122-143), one statement a step; pc n is the n-th call on
\* myLibrary still to be made, 9 the end of main.
Goto(pc) == main' = [main EXCEPT !.pc = pc]

Line132 == main.pc = 1 /\ AddToCatalog(main.objects.librarian, main.objects.book) /\ Goto(2)
Line133 == main.pc = 2 /\ AddToCatalog(main.objects.librarian, main.objects.book2) /\ Goto(3)
Line134 == main.pc = 3 /\ AddToCatalog(main.objects.librarian, main.objects.book3) /\ Goto(4)
Line135 == main.pc = 4 /\ GetBooks /\ Goto(5)
Line138 == main.pc = 5 /\ RentBook(main.objects.member1, main.objects.book) /\ Goto(6)
Line139 == main.pc = 6 /\ RentBook(main.objects.member2, main.objects.book2) /\ Goto(7)
Line141 == main.pc = 7 /\ ReturnBook(main.objects.member1, main.objects.book) /\ Goto(8)
Line142 == main.pc = 8 /\ ReturnBook(main.objects.member2, main.objects.book2) /\ Goto(9)

NextMain ==
  \/ Line132 \/ Line133 \/ Line134 \/ Line135
  \/ Line138 \/ Line139 \/ Line141 \/ Line142

SpecMain == InitMain /\ [][NextMain]_vars

\* ================================================================ claims
\* The formulas on steps name the call by its action; `out'.op`, which every
\* action sets, is tested first only to spare evaluating the other actions.
Added(user, book) == out'.op = "addBook" /\ AddBook(user, book)
Removed(user, book) == out'.op = "removeBook" /\ RemoveBook(user, book)
Rented(user, book) == out'.op = "rentBook" /\ RentBook(user, book)
Returned(user, book) == out'.op = "returnBook" /\ ReturnBook(user, book)

Members == {u \in Users : getRole(u) = MEMBER}
Librarians == {u \in Users : getRole(u) = LIBRARIAN}

\* An element of a getBooks() result agrees with a Book in title, author
\* and the instant of publishedDate (whatever type carries it).
Equivalent(elem, bk) ==
  /\ elem.title = bk.title
  /\ elem.author = bk.author
  /\ toJSON(elem.publishedDate) = toJSON(bk.publishedDate)

\* A getBooks() result contains (an element equivalent to) the Book `book`.
Contains(result, h, book) ==
  \E i \in 1..Len(result.elems) : Equivalent(result.elems[i].obj, h[book])

\* C1: every book has at most one current borrower: no two distinct ledger
\* keys map to the same Book object.
C1_OneBorrowerPerBook ==
  \A n1, n2 \in DOMAIN rentedBooks :
    n1 # n2 => rentedBooks[n1] # rentedBooks[n2]

\* C2 as stated: while a Member object's own successful rentBook of b1 is
\* not followed by a successful returnBook of that same object, each of its
\* rentBook calls is denied as AlreadyBorrowing and the ledger still maps
\* its name to b1.
C2_SingleLoanPerObject ==
  [][\A user \in DOMAIN loan, book \in Books :
       (loan[user] # NoRef /\ Rented(user, book))
         => /\ out'.kind = "AlreadyBorrowing"
            /\ rentedBooks' = rentedBooks
            /\ get(rentedBooks', user.name) = loan[user]]_vars

\* C2 amended: while a successful rentBook of b1 under a name is not
\* followed by a successful returnBook under that name, every rentBook by a
\* MEMBER of that name, for every book, is denied as AlreadyBorrowing and
\* the ledger still maps the name to b1.
C2_SingleLoanPerName ==
  [][\A user \in Members, book \in Books :
       (borrowed[user.name] # NoRef /\ Rented(user, book))
         => /\ out'.kind = "AlreadyBorrowing"
            /\ rentedBooks' = rentedBooks
            /\ get(rentedBooks', user.name) = borrowed[user.name]]_vars

\* C2 witness: member1 holds a loan of its own and a rentBook under its
\* name has just been denied as AlreadyBorrowing.
C2_Witness ==
  /\ out.op = "rentBook"
  /\ out.kind = "AlreadyBorrowing"
  /\ out.name = member1.name
  /\ member1 \in DOMAIN loan
  /\ loan[member1] # NoRef
  /\ get(rentedBooks, member1.name) = loan[member1]

\* C3: for every name the successful rentBook calls not yet followed by a
\* successful returnBook number 0 or 1, and 1 exactly when the ledger has
\* an entry for the name; an entry appears only in a successful rentBook
\* under that name and disappears only in a successful returnBook under it.
C3_LedgerCountsLoans ==
  /\ [](\A n \in Names :
          /\ outstanding[n] \in {0, 1}
          /\ outstanding[n] = 1 <=> n \in DOMAIN rentedBooks)
  /\ [][\A n \in Names :
          /\ (n \notin DOMAIN rentedBooks /\ n \in DOMAIN rentedBooks')
               => (out'.op = "rentBook" /\ out'.kind = "Rented" /\ out'.name = n)
          /\ (n \in DOMAIN rentedBooks /\ n \notin DOMAIN rentedBooks')
               => (out'.op = "returnBook" /\ out'.kind = "Returned" /\ out'.name = n)]_vars

\* C3 witness: after a successful returnBook one name has an entry and an
\* outstanding loan, the other has neither.
C3_Witness ==
  /\ out.kind = "Returned"
  /\ \E n \in Names : outstanding[n] = 1 /\ n \in DOMAIN rentedBooks
  /\ \E n \in Names : outstanding[n] = 0 /\ n \notin DOMAIN rentedBooks

\* C4: returnBook by a MEMBER succeeds and deletes the entry of its name
\* exactly when the ledger maps the name to the identical Book; otherwise
\* the outcome is NotBorrowed, the ledger is unchanged, and a following
\* returnBook for the book actually held succeeds.
C4_ReturnMatching ==
  [][\A user \in Members, book \in Books :
       Returned(user, book)
         => IF user.name \in DOMAIN rentedBooks /\ rentedBooks[user.name] = book
              THEN /\ out'.kind = "Returned"
                   /\ DOMAIN rentedBooks' = DOMAIN rentedBooks \ {user.name}
                   /\ \A n \in DOMAIN rentedBooks' : rentedBooks'[n] = rentedBooks[n]
              ELSE /\ out'.kind = "NotBorrowed"
                   /\ rentedBooks' = rentedBooks
                   /\ user.name \in DOMAIN rentedBooks'
                        => returnBook(rentedBooks', heap', user,
                                      rentedBooks'[user.name]).out.kind = "Returned"]_vars

\* C4 witness: a returnBook was denied as NotBorrowed while the name holds
\* another Book object, one with the very same title.
C4_Witness ==
  /\ out.op = "returnBook"
  /\ out.kind = "NotBorrowed"
  /\ out.name \in DOMAIN rentedBooks
  /\ heap[rentedBooks[out.name]].title = out.title

\* C5: addBook and removeBook by an actor that is not a LIBRARIAN leave the
\* catalog unchanged and give NotAuthorized.
C5_CatalogNeedsLibrarian ==
  [][\A user \in Users, book \in Books :
       (getRole(user) # LIBRARIAN /\ (Added(user, book) \/ Removed(user, book)))
         => (books' = books /\ out'.kind = "NotAuthorized")]_vars

\* C5 witness: a removeBook was denied while its catalog is not empty.
C5_Witness ==
  /\ out.op = "removeBook"
  /\ out.kind = "NotAuthorized"
  /\ Len(books) > 0

\* C6: rentBook and returnBook by an actor that is not a MEMBER leave the
\* ledger unchanged and give NotAuthorized.
C6_LedgerNeedsMember ==
  [][\A user \in Users, book \in Books :
       (getRole(user) # MEMBER /\ (Rented(user, book) \/ Returned(user, book)))
         => (rentedBooks' = rentedBooks /\ out'.kind = "NotAuthorized")]_vars

\* C6 witness: a returnBook was denied as NotAuthorized while the ledger
\* holds an entry under the librarian's own name.
C6_Witness ==
  /\ out.op = "returnBook"
  /\ out.kind = "NotAuthorized"
  /\ \E u \in Librarians : u.name \in DOMAIN rentedBooks

\* C7 as stated: from every reachable state and for every book b, getBooks()
\* after addBook(librarian, b) contains b, and getBooks() after a following
\* removeBook(librarian, b) does not, also when b was in the catalog before.
C7_RoundTrip ==
  \A user \in Librarians, book \in Books :
    LET added == addBook(books, user, book).books
        removed == removeBook(added, user, book).books
    IN /\ Contains(getBooks(added, heap), heap, book)
       /\ ~Contains(getBooks(removed, heap), heap, book)

\* C7 amended: getBooks() after addBook(librarian, b) contains b; getBooks()
\* after a following removeBook(librarian, b) does not, provided the catalog
\* before the addBook held no entry with b's title, author and date (b
\* itself included).
C7_RoundTripOfNewBook ==
  \A user \in Librarians, book \in Books :
    LET added == addBook(books, user, book).books
        removed == removeBook(added, user, book).books
    IN /\ Contains(getBooks(added, heap), heap, book)
       /\ ~Contains(getBooks(books, heap), heap, book)
            => ~Contains(getBooks(removed, heap), heap, book)

\* C7 witness: a librarian's removeBook has just run and left a catalog of
\* one entry, which a book not in the catalog does not match.
C7_Witness ==
  /\ out = Silent("removeBook")
  /\ Len(books) = 1
  /\ \E book \in Books : ~Contains(getBooks(books, heap), heap, book)

\* C8: for each of the four operations a call without the required role
\* leaves catalog and ledger unchanged, and its outcome is the same
\* NotAuthorized line whatever the catalog and the ledger hold.
C8_RoleCheckFirst ==
  [][\A user \in Users, book \in Books :
       /\ (getRole(user) # LIBRARIAN /\ Added(user, book))
            => (UNCHANGED <<books, rentedBooks>>
                /\ out' = Log("addBook", "NotAuthorized", "", ""))
       /\ (getRole(user) # LIBRARIAN /\ Removed(user, book))
            => (UNCHANGED <<books, rentedBooks>>
                /\ out' = Log("removeBook", "NotAuthorized", "", ""))
       /\ (getRole(user) # MEMBER /\ Rented(user, book))
            => (UNCHANGED <<books, rentedBooks>>
                /\ out' = Log("rentBook", "NotAuthorized", "", ""))
       /\ (getRole(user) # MEMBER /\ Returned(user, book))
            => (UNCHANGED <<books, rentedBooks>>
                /\ out' = Log("returnBook", "NotAuthorized", "", ""))]_vars

\* C8 witness: a LIBRARIAN whose name has a ledger entry was denied
\* rentBook as NotAuthorized.
C8_Witness ==
  /\ out.op = "rentBook"
  /\ out.kind = "NotAuthorized"
  /\ \E u \in Librarians : u.name \in DOMAIN rentedBooks

\* C9: getBooks() changes neither catalog nor ledger; it returns what the
\* previous getBooks() returned when the catalog has not changed in between;
\* and a write by the caller to the returned array or to one of its
\* elements leaves what getBooks() returns unchanged.
C9_SnapshotIndependence ==
  [][/\ (out'.op = "getBooks" /\ GetBooks)
          => /\ UNCHANGED <<books, rentedBooks, heap>>
             /\ seen.array # "undefined" => ret' = seen
     /\ (out'.op \in {"pop", "write"}
           /\ (PopArray \/ \E i \in 1..MaxBooks : WriteElement(i)))
          => getBooks(books', heap') = getBooks(books, heap)]_vars

\* C9 witness: the caller has changed the array it was given, which now
\* differs from what getBooks() returned, the catalog being unchanged since.
C9_Witness ==
  /\ out.op \in {"write", "pop"}
  /\ seen.array # "undefined"
  /\ Len(seen.elems) = 2
  /\ ret # seen

\* C10: getBooks() returns a value-equal copy: as long as the catalog, and
\* element i has the title, the author and the publishedDate value (a
\* timestamp, of the same type) of the i-th stored Book.
C10_ValueEqualCopy ==
  out.op = "getBooks"
    => /\ Len(ret.elems) = Len(books)
       /\ \A i \in 1..Len(books) :
            /\ ret.elems[i].obj.title = heap[books[i]].title
            /\ ret.elems[i].obj.author = heap[books[i]].author
            /\ ret.elems[i].obj.publishedDate.type = heap[books[i]].publishedDate.type
            /\ ret.elems[i].obj.publishedDate.value = heap[books[i]].publishedDate.value

\* A sequence with its entry at index i left out.
Without(bs, i) == [j \in 1..(Len(bs) - 1) |-> IF j < i THEN bs[j] ELSE bs[j + 1]]

\* C11: the catalog, and so getBooks(), lists the books in the order of
\* their successful addBook calls, removed occurrences deleted: an
\* authorized addBook appends exactly its book at the end and leaves every
\* entry before it in place, a denied one changes nothing, removeBook at
\* most deletes one entry and keeps the rest in order, and getBooks()
\* returns the entries of the catalog in catalog order.
C11_InsertionOrder ==
  [][\A user \in Users, book \in Books :
       /\ (out'.op = "addBook" /\ AddToCatalog(user, book))
            => IF getRole(user) = LIBRARIAN
                 THEN /\ Len(books') = Len(books) + 1
                      /\ \A i \in 1..Len(books) : books'[i] = books[i]
                      /\ books'[Len(books')] = book
                 ELSE books' = books
       /\ Removed(user, book)
            => \/ books' = books
               \/ \E i \in 1..Len(books) : books' = Without(books, i)
       /\ (out'.op = "getBooks" /\ GetBooks)
            => /\ books' = books
               /\ Len(ret'.elems) = Len(books)
               /\ \A i \in 1..Len(books) :
                    Equivalent(ret'.elems[i].obj, heap[books[i]])]_vars

\* C11 witness: getBooks() has returned three entries, the one added last
\* differing in its fields from the one added first.
C11_Witness ==
  /\ out.op = "getBooks"
  /\ Len(books) = 3
  /\ Len(ret.elems) = 3
  /\ ~Equivalent(ret.elems[3].obj, heap[books[1]])

\* C12: removeBook by a LIBRARIAN removes exactly the first entry identical
\* to the book, the catalog getting one shorter and the other entries
\* keeping their order; with no identical entry (an entry of equal title,
\* author and date or not) the catalog is unchanged; no error is reported
\* either way.
C12_RemoveFirstIdentical ==
  [][\A user \in Librarians, book \in Books :
       Removed(user, book)
         => /\ out'.kind = "Silent"
            /\ IF \E i \in 1..Len(books) : books[i] = book
                 THEN LET first == CHOOSE i \in 1..Len(books) :
                                     books[i] = book
                                     /\ \A j \in 1..(i - 1) : books[j] # book
                      IN /\ books' = Without(books, first)
                         /\ Len(books') = Len(books) - 1
                 ELSE books' = books]_vars

\* C12 witness: a librarian's removeBook has run and left two entries of
\* the catalog in place, a book and, behind it, another of equal fields.
C12_Witness ==
  /\ out = Silent("removeBook")
  /\ Len(books) = 2
  /\ books[1] # books[2]
  /\ heap[books[1]] = heap[books[2]]

\* C13: rentBook by a MEMBER succeeds exactly when the ledger has no entry
\* for its name, and the ledger then gains exactly the entry name -> book,
\* every other entry unchanged, the book being in the catalog or not.
C13_RentWhenNameFree ==
  [][\A user \in Members, book \in Books :
       Rented(user, book)
         => IF user.name \notin DOMAIN rentedBooks
              THEN /\ out'.kind = "Rented"
                   /\ DOMAIN rentedBooks' = DOMAIN rentedBooks \cup {user.name}
                   /\ rentedBooks'[user.name] = book
                   /\ \A n \in DOMAIN rentedBooks : rentedBooks'[n] = rentedBooks[n]
              ELSE /\ out'.kind # "Rented"
                   /\ rentedBooks' = rentedBooks]_vars

\* C13 witness: a rentBook has succeeded for a book that is not in the
\* (non-empty) catalog, next to the entry of another name.
C13_Witness ==
  /\ out.kind = "Rented"
  /\ Cardinality(DOMAIN rentedBooks) = 2
  /\ Len(books) > 0
  /\ \A i \in 1..Len(books) : books[i] # rentedBooks[out.name]

\* C14: on a new Library, after the librarian has added three distinct
\* books in turn, getBooks() lists them in that order; member A's rent of
\* the first, member B's rent of the second, A's return and B's return all
\* succeed; and main ends with an empty ledger and the three books in the
\* catalog.
C14_ReferenceScenario ==
  LET o == main.objects
      three == <<o.book, o.book2, o.book3>>
  IN /\ main.pc = 5
          => /\ Len(ret.elems) = 3
             /\ \A i \in 1..3 : Equivalent(ret.elems[i].obj, heap[three[i]])
     /\ main.pc = 6
          => /\ out.kind = "Rented"
             /\ DOMAIN rentedBooks = {o.member1.name}
             /\ rentedBooks[o.member1.name] = o.book
     /\ main.pc = 7
          => /\ out.kind = "Rented"
             /\ DOMAIN rentedBooks = {o.member1.name, o.member2.name}
             /\ rentedBooks[o.member2.name] = o.book2
     /\ main.pc = 8
          => /\ out.kind = "Returned"
             /\ DOMAIN rentedBooks = {o.member2.name}
     /\ main.pc = 9
          => /\ out.kind = "Returned"
             /\ DOMAIN rentedBooks = {}
             /\ books = three

\* C14 witness: main has run to its end.
C14_Witness ==
  /\ main.pc = 9
  /\ Len(books) = 3

\* C15: every addBook and removeBook call, authorized or not, leaves the
\* ledger unchanged, and every rentBook and returnBook call, successful or
\* not, leaves the catalog unchanged.
C15_CrossStructureFrame ==
  [][\A user \in Users, book \in Books :
       /\ (Added(user, book) \/ Removed(user, book)) => rentedBooks' = rentedBooks
       /\ (Rented(user, book) \/ Returned(user, book)) => books' = books]_vars

\* C15 witness: a rentBook has succeeded and the book it lent is still in
\* the catalog.
C15_Witness ==
  /\ out.kind = "Rented"
  /\ \E i \in 1..Len(books) : books[i] = rentedBooks[out.name]

\* C16: an entry name -> b of the ledger stays as it is through every step
\* that is not a returnBook of b by a MEMBER of that name, and that
\* returnBook succeeds and ends the entry, b being in the catalog or not.
C16_LoanPersistence ==
  [][\A n \in DOMAIN rentedBooks :
       IF \E user \in Members : user.name = n /\ Returned(user, rentedBooks[n])
         THEN out'.kind = "Returned" /\ n \notin DOMAIN rentedBooks'
         ELSE n \in DOMAIN rentedBooks' /\ rentedBooks'[n] = rentedBooks[n]]_vars

\* C16 witness: the lent book b3 has been returned with success while the
\* (non-empty) catalog does not hold it.
C16_Witness ==
  /\ out.kind = "Returned"
  /\ out.title = heap["b3"].title
  /\ Len(books) > 0
  /\ \A i \in 1..Len(books) : books[i] # "b3"

\* C17: the ledger is keyed by name: for distinct MEMBER objects m1 and m2
\* of one name, once rentBook(m1, b) has succeeded, rentBook(m2, any book)
\* is denied as AlreadyBorrowing, returnBook(m2, b) succeeds and clears the
\* entry, and returnBook(m1, b) is then denied as NotBorrowed.
C17_KeyedByName ==
  \A m1 \in Members, m2 \in Members, book \in Books, other \in Books :
    (m1 # m2 /\ m1.name = m2.name)
      => LET r1 == rentBook(rentedBooks, heap, m1, book)
             r2 == rentBook(r1.rentedBooks, heap, m2, other)
             r3 == returnBook(r2.rentedBooks, heap, m2, book)
             r4 == returnBook(r3.rentedBooks, heap, m1, book)
         IN r1.out.kind = "Rented"
              => /\ r2.out.kind = "AlreadyBorrowing"
                 /\ r2.rentedBooks = r1.rentedBooks
                 /\ r3.out.kind = "Returned"
                 /\ m1.name \notin DOMAIN r3.rentedBooks
                 /\ r4.out.kind = "NotBorrowed"

\* C17 witness: member1 rented and never returned, yet its name has no
\* entry (its namesake returned the book), and a returnBook under the name
\* has just been denied as NotBorrowed.
C17_Witness ==
  /\ member1 \in DOMAIN loan
  /\ loan[member1] # NoRef
  /\ member1.name \notin DOMAIN rentedBooks
  /\ out.kind = "NotBorrowed"
  /\ out.name = member1.name
  /\ out.title = heap[loan[member1]].title
====
